---- MODULE Spec2Model ----
(***************************************************************************)
(* A model of modules/model_bk.py: the video-adapted CLIP vision encoder.  *)
(*                                                                         *)
(* Tensors are records [shape, data] with the data in row-major order of   *)
(* the logical shape, indices 0-based as in the source.  Real arithmetic   *)
(* is carried out on integers: every library map that is not integral      *)
(* (LayerNorm, QuickGELU, softmax, sigmoid) is the source's formula        *)
(* rounded to a fixed precision, stated where it is defined.               *)
(*                                                                         *)
(* Four specifications share the variables, each leaving the others' idle: *)
(*   SpecTemporal  UnfoldTemporalWindows and TemporalAggregationBlock      *)
(*   SpecForward   Transformer.forward, on values                          *)
(*   SpecBuild     build_model, on dictionaries of shapes                  *)
(*   SpecResNet    ModifiedResNet.forward, on shapes                       *)
(***************************************************************************)
EXTENDS Integers, Sequences, FiniteSets, TLC

(***************************************************************************)
(* Bounds of the model.                                                    *)
(***************************************************************************)
MaxVideos == 2      \* videos per batch
MaxT      == 5      \* frames per video
MaxTokens == 3      \* tokens per frame, the cls token included (L)
MaxD      == 2      \* width of a token (d_model)
MaxSeed   == 1      \* seeds of the input and parameter generator

(***************************************************************************)
(* Tensor algebra (torch.Tensor: shape, view, permute, slicing, concat).   *)
(***************************************************************************)
RECURSIVE Numel(_)
Numel(shape) ==
    IF shape = <<>> THEN 1 ELSE Head(shape) * Numel(Tail(shape))

\* The index tuple (0-based) of the flat position k (0-based), row-major.
RECURSIVE Unravel(_, _)
Unravel(k, shape) ==
    CASE Len(shape) = 0 -> <<>>
      [] Len(shape) = 1 -> <<k>>
      [] Len(shape) = 2 -> <<k \div shape[2], k % shape[2]>>
      [] Len(shape) = 3 -> <<k \div (shape[2] * shape[3]),
                             (k \div shape[3]) % shape[2], k % shape[3]>>
      [] OTHER -> LET rest == Numel(Tail(shape))
                  IN  <<k \div rest>> \o Unravel(k % rest, Tail(shape))

\* The flat position (0-based) of an index tuple, row-major.
RECURSIVE Ravel(_, _)
Ravel(idx, shape) ==
    CASE Len(shape) = 0 -> 0
      [] Len(shape) = 1 -> idx[1]
      [] Len(shape) = 2 -> idx[1] * shape[2] + idx[2]
      [] Len(shape) = 3 -> (idx[1] * shape[2] + idx[2]) * shape[3] + idx[3]
      [] OTHER -> Head(idx) * Numel(Tail(shape)) + Ravel(Tail(idx), Tail(shape))

At(t, idx) == t.data[Ravel(idx, t.shape) + 1]

\* F applied to the value of e (and to those of e1, e2, ...): the argument is
\* evaluated once, as a call does, and not wherever F uses it.
Let1(e, F(_)) == CHOOSE r \in {F(u) : u \in {e}} : TRUE
Let2(e1, e2, F(_, _)) == CHOOSE r \in {F(u, v) : u \in {e1}, v \in {e2}} : TRUE
Let3(e1, e2, e3, F(_, _, _)) ==
    CHOOSE r \in {F(u, v, w) : u \in {e1}, v \in {e2}, w \in {e3}} : TRUE

\* The tensor of a shape whose element at index idx is F(idx); the data are
\* laid out as a tuple.
MkTensor(shape, F(_)) ==
    [shape |-> shape,
     data  |-> [k \in 1..Numel(shape) |-> F(Unravel(k - 1, shape))] \o <<>>]


\* x.view(shape) / x.reshape(shape): the same elements in the same logical
\* order under another shape; one entry may be -1 and is then inferred.
ViewShape(n, shape) ==
    LET known == Numel([i \in 1..Len(shape) |->
                          IF shape[i] = -1 THEN 1 ELSE shape[i]])
    IN  [i \in 1..Len(shape) |-> IF shape[i] = -1 THEN n \div known ELSE shape[i]]

View(t, shape) ==
    Let1(t, LAMBDA u : [shape |-> ViewShape(Len(u.data), shape) \o <<>>, data |-> u.data])

\* x.permute(perm): dimension i of the result is dimension perm[i+1] of x.
Permute(t, perm) ==
    Let2(t, [j \in 1..Len(perm) |-> CHOOSE i \in 1..Len(perm) : perm[i] = j - 1] \o <<>>,
         LAMBDA u, inv :
            MkTensor([i \in 1..Len(perm) |-> u.shape[perm[i] + 1]] \o <<>>,
                     LAMBDA idx : At(u, [j \in 1..Len(perm) |-> idx[inv[j]]])))

\* x[from:] and x[:to] along dimension 0.
SliceFrom(t, from) ==
    Let1(t, LAMBDA u :
        [shape |-> <<u.shape[1] - from>> \o Tail(u.shape),
         data  |-> SubSeq(u.data, from * Numel(Tail(u.shape)) + 1, Len(u.data))])

SliceTo(t, to) ==
    Let1(t, LAMBDA u :
        [shape |-> <<to>> \o Tail(u.shape),
         data  |-> SubSeq(u.data, 1, to * Numel(Tail(u.shape)))])

\* torch.concat((a, b), 0)
Concat0(a, b) ==
    Let2(a, b, LAMBDA u, v :
        [shape |-> <<u.shape[1] + v.shape[1]>> \o Tail(u.shape),
         data  |-> u.data \o v.data])

\* a + b for tensors of one shape, and a + b * w for a scalar w.
TAdd(a, b) ==
    Let2(a, b, LAMBDA u, v :
        [shape |-> u.shape,
         data  |-> [k \in 1..Len(u.data) |-> u.data[k] + v.data[k]] \o <<>>])

RECURSIVE SeqSum(_)
SeqSum(s) == IF s = <<>> THEN 0 ELSE Head(s) + SeqSum(Tail(s))

\* The sum of F(0), ..., F(n-1).
SumTo(n, F(_)) == SeqSum([i \in 1..n |-> F(i - 1)])

Sign(a) == IF a > 0 THEN 1 ELSE IF a < 0 THEN -1 ELSE 0

(***************************************************************************)
(* Inputs and freshly drawn parameters (torch.randn, torch.rand): the      *)
(* element at flat position k under a seed.  Seed 0 labels every element   *)
(* with its position, so that an index mix-up cannot cancel out; the       *)
(* other seeds give values in -2..2.                                       *)
(***************************************************************************)
Gen(seed, k) ==
    IF seed = 0 THEN k + 1
    ELSE ((((seed + 2) * k * k + 3 * k + seed) % 11) % 5) - 2

GenTensor(seed, shape) ==
    [shape |-> shape, data |-> [k \in 1..Numel(shape) |-> Gen(seed, k - 1)] \o <<>>]

(***************************************************************************)
(* LayerNorm (lines 157-163) over the last dimension, with the affine      *)
(* parameters of a constructed nn.LayerNorm (weight 1, bias 0), rounded to *)
(* the nearest integer.  With n_i = D*x_i - sum(x) and S = sum(n_j^2) the  *)
(* normalised value is n_i*sqrt(D)/sqrt(S + eps'): it rounds to the        *)
(* largest k with (2k-1)^2 * S < 4 * n_i^2 * D.                            *)
(***************************************************************************)
RoundedNorm(n, S, D) ==
    LET ks == {k \in 0..D : k = 0 \/ (2 * k - 1) * (2 * k - 1) * S < 4 * n * n * D}
    IN  Sign(n) * (CHOOSE k \in ks : \A j \in ks : j <= k)

\* Row r (0-based) of the data of a tensor whose last dimension is D.
RowOf(data, r, D) == SubSeq(data, r * D + 1, r * D + D)

LayerNormRow(row) ==
    Let2(Len(row), SeqSum(row), LAMBDA D, total :
        Let1([d \in 1..D |-> D * row[d] - total] \o <<>>, LAMBDA n :
            Let1(SeqSum([d \in 1..D |-> n[d] * n[d]] \o <<>>), LAMBDA S :
                [d \in 1..D |-> RoundedNorm(n[d], S, D)] \o <<>>)))

LayerNorm(t) ==
    Let1(t, LAMBDA u :
        Let1(u.shape[Len(u.shape)], LAMBDA D :
            Let1([r \in 1..(Len(u.data) \div D) |->
                      LayerNormRow(RowOf(u.data, r - 1, D))] \o <<>>, LAMBDA rows :
                [shape |-> u.shape,
                 data  |-> [k \in 1..Len(u.data) |->
                               rows[((k - 1) \div D) + 1][((k - 1) % D) + 1]] \o <<>>])))

(***************************************************************************)
(* UnfoldTemporalWindows (lines 258-283).                                  *)
(***************************************************************************)
window_size     == 5    \* UnfoldTemporalWindows(5), line 320
window_stride   == 1    \* default of line 259
window_dilation == 1    \* default of line 259

\* line 265
UnfoldPadding ==
    (window_size + (window_size - 1) * (window_dilation - 1) - 1) \div 2

\* nn.Unfold(kernel_size=(window_size, 1), dilation=(window_dilation, 1),
\* stride=(window_stride, 1), padding=(padding, 0)) on x of shape (N, C, H, W):
\* the result has shape (N, C*window_size, Hout*W); its channel c*window_size + kh
\* at block ho*W + wo is the zero-padded x[n, c, ho*stride + kh*dilation - pad, wo].
Unfold(x) ==
    LET N == x.shape[1]
        C == x.shape[2]
        H == x.shape[3]
        W == x.shape[4]
        Hout == ((H + 2 * UnfoldPadding - window_dilation * (window_size - 1) - 1)
                    \div window_stride) + 1
        Elem(idx) ==
            LET c  == idx[2] \div window_size
                kh == idx[2] % window_size
                ho == idx[3] \div W
                wo == idx[3] % W
                h  == ho * window_stride + kh * window_dilation - UnfoldPadding
            IN  IF h >= 0 /\ h < H THEN At(x, <<idx[1], c, h, wo>>) ELSE 0
    IN  MkTensor(<<N, C * window_size, Hout * W>>, Elem)

\* A variant that unfolds the whole batch as one video.
UnfoldTemporalWindows_OneVideo(x, T) ==
    LET NT == x.shape[1]
        C  == x.shape[2]
        P  == x.shape[3]
        x1 == Permute(View(x, <<1, NT, C, P>>), <<0, 2, 1, 3>>)
        x2 == Unfold(x1)
        x3 == View(x2, <<1, C, window_size, NT, P>>)
        x4 == Permute(x3, <<0, 3, 1, 2, 4>>)
    IN  View(x4, <<NT, C, -1>>)

\* UnfoldTemporalWindows.forward(x, T), lines 271-283
UnfoldTemporalWindows(x, T) ==
    LET NT == x.shape[1]
        C  == x.shape[2]
        P  == x.shape[3]
        x1 == Permute(View(x, <<-1, T, C, P>>), <<0, 2, 1, 3>>)
        x2 == Unfold(x1)
        x3 == View(x2, <<-1, C, window_size, T, P>>)
        x4 == Permute(View(x3, <<-1, C, window_size, T, P>>), <<0, 3, 1, 2, 4>>)
    IN  View(x4, <<NT, C, -1>>)

(***************************************************************************)
(* Correlation_Module.forward (lines 295-304).  sigmoid(a/sqrt(D)) - 0.5   *)
(* is rounded to eighths: its value times 8 is the number of thresholds    *)
(* z0 (where 8*(sigmoid(z0) - 0.5) passes a half) with z0^2 <= a^2/D,      *)
(* signed as a; the thresholds are 10000*z0^2.  features are in eighths.   *)
(***************************************************************************)
SigmoidThresholds == {632, 6217, 21500, 73340}

SigmoidMinusHalf(a, D) ==
    Sign(a) * Cardinality({th \in SigmoidThresholds : a * a * 10000 >= th * D})

Correlation_Module(x, upfold) ==
    LET L == x.shape[1]
        N == x.shape[2]
        D == x.shape[3]
        O == upfold.shape[1]
        \* torch.einsum('lnd,ond->lon', x, upfold) / math.sqrt(D), line 301
        affinities ==
            MkTensor(<<L, O, N>>, LAMBDA i :
                SumTo(D, LAMBDA d : At(x, <<i[1], i[3], d>>)
                                        * At(upfold, <<i[2], i[3], d>>)))
        \* torch.einsum('lon,ond->lnd', sigmoid(affinities) - 0.5, upfold), line 302
        features ==
            MkTensor(<<L, N, D>>, LAMBDA i :
                SumTo(O, LAMBDA o : SigmoidMinusHalf(At(affinities, <<i[1], o, i[2]>>), D)
                                        * At(upfold, <<o, i[2], i[3]>>)))
    IN  features

(***************************************************************************)
(* TemporalAggregationBlock (lines 306-333).                               *)
(***************************************************************************)
\* A variant whose keys include the cls token.
TemporalAttention_KeysWithCls(x, T) ==
    LET x_upfold == Permute(UnfoldTemporalWindows(
                                Permute(SliceFrom(x, 0), <<1, 2, 0>>), T),
                            <<2, 0, 1>>)
    IN  Correlation_Module(SliceTo(x, 1), x_upfold)

\* attention(x, T), lines 322-326
TemporalAttention(x, T) ==
    LET x_upfold == Permute(UnfoldTemporalWindows(
                                Permute(SliceFrom(x, 1), <<1, 2, 0>>), T),
                            <<2, 0, 1>>)
    IN  Correlation_Module(SliceTo(x, 1), x_upfold)

\* forward(x, T), lines 328-333
TemporalAggregationBlock(x, T) == TemporalAttention(LayerNorm(x), T)

(***************************************************************************)
(* Parameters of a Transformer (lines 335-349), by name as in              *)
(* named_parameters(): a name is the tuple of its dot-separated parts.     *)
(* LayerNorm keeps the weight 1 and bias 0 it is constructed with.         *)
(***************************************************************************)
Str(i) == <<"0", "1", "2", "3", "4", "5", "6", "7", "8", "9">>[i + 1]

prefix_length == 8      \* line 190

\* int(d_model * r) with r = 1/4, lines 221-225
AdapterHidden(d_model) == d_model \div 4

\* The parameters of nn.Linear(in, out) under a module name.
LinearShapes(name, in, out) ==
    (name \o <<"weight">>) :> <<out, in>> @@ (name \o <<"bias">>) :> <<out>>

\* nn.MultiheadAttention(d_model, n_head), lines 175 and 239
AttnShapes(name, d) ==
    (name \o <<"in_proj_weight">>) :> <<3 * d, d>>
        @@ (name \o <<"in_proj_bias">>) :> <<3 * d>>
        @@ LinearShapes(name \o <<"out_proj">>, d, d)

\* Adapter.__init__, lines 219-227
AdapterShapes(name, d) ==
    LinearShapes(name \o <<"mlp", "c_in">>, d, AdapterHidden(d))
        @@ LinearShapes(name \o <<"mlp", "c_out">>, AdapterHidden(d), d)

\* ResidualAttentionBlock.__init__, lines 172-193
ResBlockShapes(name, d) ==
    AttnShapes(name \o <<"attn">>, d)
        @@ LinearShapes(name \o <<"mlp", "c_fc">>, d, d * 4)
        @@ LinearShapes(name \o <<"mlp", "c_proj">>, d * 4, d)
        @@ AdapterShapes(name \o <<"S_Adapter">>, d)
        @@ AdapterShapes(name \o <<"MLP_Adapter">>, d)
        @@ (name \o <<"prefix_embedding_k">>) :> <<prefix_length, 1, d>>
        @@ (name \o <<"prefix_embedding_v">>) :> <<prefix_length, 1, d>>

\* AggregationBlock.__init__, lines 236-247
AggBlockShapes(name, d) ==
    AttnShapes(name \o <<"attn">>, d)
        @@ LinearShapes(name \o <<"mlp", "c_fc">>, d, d * 1)
        @@ LinearShapes(name \o <<"mlp", "c_proj">>, d * 1, d)

RECURSIVE BlocksShapes(_, _, _)
BlocksShapes(kind, n, d) ==
    IF n = 0 THEN <<>> :> <<>>
    ELSE BlocksShapes(kind, n - 1, d)
            @@ (IF kind = "resblocks"
                THEN ResBlockShapes(<<kind, Str(n - 1)>>, d)
                ELSE AggBlockShapes(<<kind, Str(n - 1)>>, d))

\* Transformer.__init__, lines 341-349: every parameter's shape.
TransformerShapes(width, layers) ==
    LET all == BlocksShapes("resblocks", layers, width)
                  @@ BlocksShapes("aggblocks", layers, width)
                  @@ <<"query">> :> <<1, 1, width>>
                  @@ <<"temporal_ada_weight">> :> <<1>>
    IN  [name \in DOMAIN all \ {<<>>} |-> all[name]]

\* named_modules() of an Adapter, an attention block and a Transformer: each
\* module's name relative to the root, and whether it is an nn.Linear.
Below(prefix, modules) ==
    {[name |-> prefix \o m.name, linear |-> m.linear] : m \in modules}

AdapterModules ==
    {[name |-> <<>>, linear |-> FALSE],
     [name |-> <<"mlp">>, linear |-> FALSE],
     [name |-> <<"mlp", "c_in">>, linear |-> TRUE],
     [name |-> <<"mlp", "gelu">>, linear |-> FALSE],
     [name |-> <<"mlp", "c_out">>, linear |-> TRUE]}

AggBlockModules ==
    {[name |-> <<>>, linear |-> FALSE],
     [name |-> <<"attn">>, linear |-> FALSE],
     [name |-> <<"attn", "out_proj">>, linear |-> TRUE],
     [name |-> <<"ln_1">>, linear |-> FALSE],
     [name |-> <<"mlp">>, linear |-> FALSE],
     [name |-> <<"mlp", "c_fc">>, linear |-> TRUE],
     [name |-> <<"mlp", "gelu">>, linear |-> FALSE],
     [name |-> <<"mlp", "c_proj">>, linear |-> TRUE],
     [name |-> <<"ln_2">>, linear |-> FALSE]}

ResBlockModules ==
    AggBlockModules \cup Below(<<"S_Adapter">>, AdapterModules)
                    \cup Below(<<"MLP_Adapter">>, AdapterModules)

TransformerModules(layers) ==
    {[name |-> <<>>, linear |-> FALSE],
     [name |-> <<"resblocks">>, linear |-> FALSE],
     [name |-> <<"aggblocks">>, linear |-> FALSE],
     [name |-> <<"taggblocks">>, linear |-> FALSE],
     [name |-> <<"taggblocks", "attn">>, linear |-> FALSE],
     [name |-> <<"taggblocks", "ln_1">>, linear |-> FALSE],
     [name |-> <<"taggblocks", "upfold">>, linear |-> FALSE],
     [name |-> <<"taggblocks", "upfold", "unfold">>, linear |-> FALSE]}
    \cup UNION {Below(<<"resblocks", Str(i)>>, ResBlockModules) : i \in 0..layers - 1}
    \cup UNION {Below(<<"aggblocks", Str(i)>>, AggBlockModules) : i \in 0..layers - 1}

\* 'word' in n, for a dotted name n: no part of a module name of this file
\* holds another part as a proper substring.
NameHolds(name, word) == \E i \in 1..Len(name) : name[i] = word

IsPrefix(p, n) == Len(p) <= Len(n) /\ SubSeq(n, 1, Len(p)) = p

\* One loop of lines 390-406, the parameters it sets to 0: for every module
\* n of the transformer with `word` in its name, every nn.Linear below it
\* (itself included) with 'c_out' in its name relative to n.
ZeroedBy(layers, word) ==
    LET mods == TransformerModules(layers)
    IN  UNION {{m2.name \o <<"weight">>, m2.name \o <<"bias">>} :
                  m2 \in {m \in mods :
                            /\ m.linear
                            /\ \E n \in mods :
                                  /\ NameHolds(n.name, word)
                                  /\ IsPrefix(n.name, m.name)
                                  /\ NameHolds(SubSeq(m.name, Len(n.name) + 1,
                                                      Len(m.name)), "c_out")}}

\* A variant of the initialisation that misses the MLP adapters.
Zeroed_SAdapterOnly(layers) == ZeroedBy(layers, "S_Adapter")

\* VisionTransformer.__init__, lines 390-406
Zeroed(layers) == ZeroedBy(layers, "S_Adapter") \cup ZeroedBy(layers, "MLP_Adapter")

ZeroTensor(shape) == [shape |-> shape, data |-> [k \in 1..Numel(shape) |-> 0] \o <<>>]

\* A freshly drawn parameter: values in -1..1, different from one parameter
\* to the next.
GenParam(seed, salt, shape) ==
    [shape |-> shape,
     data  |-> [k \in 1..Numel(shape) |->
                   ((Gen(seed + 1, k + salt) + 2) % 3) - 1] \o <<>>]

Salt(name) ==
    Len(name) + (IF NameHolds(name, "weight") THEN 3 ELSE 0)
              + (IF NameHolds(name, "1") THEN 5 ELSE 0)
              + (IF NameHolds(name, "MLP_Adapter") THEN 7 ELSE 0)
              + (IF NameHolds(name, "aggblocks") THEN 11 ELSE 0)

\* The parameters of the transformer of a constructed VisionTransformer
\* (lines 379 and 390-406); nn.MultiheadAttention sets its biases to 0 and
\* Transformer sets temporal_ada_weight to 0 (line 349).
FreshParams(width, layers, seed) ==
    LET shapes == TransformerShapes(width, layers)
        zeroed == Zeroed(layers)
    IN  [name \in DOMAIN shapes |->
            IF \/ name \in zeroed
               \/ name = <<"temporal_ada_weight">>
               \/ name[Len(name)] = "in_proj_bias"
               \/ (name[Len(name)] = "bias" /\ NameHolds(name, "out_proj"))
            THEN ZeroTensor(shapes[name])
            ELSE GenParam(seed, Salt(name), shapes[name])]

\* The parameters after load_state_dict of a checkpoint of a trained model
\* of this file: any value anywhere.
TrainedParams(width, layers, seed) ==
    LET shapes == TransformerShapes(width, layers)
    IN  [name \in DOMAIN shapes |-> GenParam(seed, Salt(name), shapes[name])]

(***************************************************************************)
(* The layers of the transformer, on parameters P (a function of names).   *)
(***************************************************************************)
\* nn.Linear on the last dimension: x @ W^T + b.  Row r of x (all leading
\* dimensions flattened) and row c of W give element (r, c) of the result.
Linear(x, W, b) ==
    Let3(x, W, b, LAMBDA xv, Wv, bv :
        Let3(xv.shape[Len(xv.shape)], Wv.shape[1],
             [i \in 1..Len(xv.shape) |->
                 IF i = Len(xv.shape) THEN Wv.shape[1] ELSE xv.shape[i]] \o <<>>,
             LAMBDA in, outd, shape :
                [shape |-> shape,
                 data  |-> [k \in 1..Numel(shape) |->
                               SumTo(in, LAMBDA e :
                                   Wv.data[((k - 1) % outd) * in + e + 1]
                                   * xv.data[((k - 1) \div outd) * in + e + 1])
                               + bv.data[((k - 1) % outd) + 1]] \o <<>>]))

LinearAt(P, name, x) == Linear(x, P[name \o <<"weight">>], P[name \o <<"bias">>])

\* QuickGELU (lines 166-168), x * sigmoid(1.702 * x), rounded to the nearest
\* integer: x for x >= 1 (0.85 rounds to 1, 1.94 to 2, ...), 0 for x <= 0
\* (-0.15, -0.06, ... round to 0).
QuickGELU(x) ==
    Let1(x, LAMBDA xv :
        [shape |-> xv.shape,
         data  |-> [k \in 1..Len(xv.data) |->
                       IF xv.data[k] > 0 THEN xv.data[k] ELSE 0] \o <<>>])

\* t.repeat(1, N, 1) for t of shape (K, 1, D)
Repeat1(t, N) ==
    Let1(t, LAMBDA tv :
        MkTensor(<<tv.shape[1], N, tv.shape[3]>>, LAMBDA idx : At(tv, <<idx[1], 0, idx[3]>>)))

RECURSIVE Pow2(_)
Pow2(n) == IF n = 0 THEN 1 ELSE 2 * Pow2(n - 1)

RECURSIVE SeqMax(_)
SeqMax(s) ==
    IF Len(s) = 1 THEN s[1]
    ELSE LET m == SeqMax(Tail(s)) IN IF s[1] > m THEN s[1] ELSE m

\* The attention of nn.MultiheadAttention with one head on the projected
\* q, k, v of shapes (Lq, N, D), (Lk, N, D), (Lk, N, D): sequence first, batch
\* second.  For every batch element n separately, token l of the query
\* weighs the keys of the same n.  The softmax is held in fixed point: key j
\* weighs 2^(8 - min(8, max score - score j)), and the weighted mean is
\* floored.
ScaledDotProduct(q, k, v) ==
    Let3(q.shape[1], q.shape[2], k.shape[1], LAMBDA Lq, N, Lk :
      Let1(MkTensor(<<Lq, N, Lk>>, LAMBDA i :
               SumTo(q.shape[3], LAMBDA d :
                   At(q, <<i[1], i[2], d>>) * At(k, <<i[3], i[2], d>>))), LAMBDA scores :
        Let1(MkTensor(<<Lq, N>>, LAMBDA i :
                 SeqMax(SubSeq(scores.data, (i[1] * N + i[2]) * Lk + 1,
                                            (i[1] * N + i[2]) * Lk + Lk))), LAMBDA top :
          Let1(MkTensor(<<Lq, N, Lk>>, LAMBDA i :
                   Let1(At(top, <<i[1], i[2]>>) - At(scores, i), LAMBDA d :
                       Pow2(8 - (IF d > 8 THEN 8 ELSE d)))), LAMBDA weights :
            Let1(MkTensor(<<Lq, N>>, LAMBDA i :
                     SeqSum(SubSeq(weights.data, (i[1] * N + i[2]) * Lk + 1,
                                                 (i[1] * N + i[2]) * Lk + Lk))), LAMBDA total :
              MkTensor(<<Lq, N, q.shape[3]>>, LAMBDA i :
                  SumTo(Lk, LAMBDA j :
                      At(weights, <<i[1], i[2], j>>) * At(v, <<j, i[2], i[3]>>))
                  \div At(total, <<i[1], i[2]>>)))))))

\* nn.MultiheadAttention: the rows of in_proj_weight project the query, the
\* key and the value, D rows each; out_proj projects the attention.
MultiheadAttention(P, name, query, key, value) ==
    Let3(P[name \o <<"in_proj_weight">>], P[name \o <<"in_proj_bias">>], P[name \o <<"in_proj_weight">>].shape[2],
         LAMBDA W, B, D :
      Let3(Linear(query, SliceTo(W, D), SliceTo(B, D)),
           Linear(key, SliceTo(SliceFrom(W, D), D), SliceTo(SliceFrom(B, D), D)),
           Linear(value, SliceFrom(W, 2 * D), SliceFrom(B, 2 * D)),
           LAMBDA q, k, v :
               LinearAt(P, name \o <<"out_proj">>, ScaledDotProduct(q, k, v))))

\* self.mlp of a block: c_proj(gelu(c_fc(x)))
Mlp(P, name, x) ==
    LinearAt(P, name \o <<"c_proj">>, QuickGELU(LinearAt(P, name \o <<"c_fc">>, x)))

\* Adapter.forward, lines 229-233
Adapter(P, name, x, skip_connect) ==
    Let1(x, LAMBDA xv :
        Let1(LinearAt(P, name \o <<"mlp", "c_out">>,
                      QuickGELU(LinearAt(P, name \o <<"mlp", "c_in">>, xv))), LAMBDA y :
            IF skip_connect THEN TAdd(y, xv) ELSE y))

\* ResidualAttentionBlock.attention, lines 195-197
ResAttention(P, name, x) ==
    Let1(x, LAMBDA xv :
        MultiheadAttention(P, name \o <<"attn">>, xv,
            Concat0(xv, Repeat1(P[name \o <<"prefix_embedding_k">>], xv.shape[2])),
            Concat0(xv, Repeat1(P[name \o <<"prefix_embedding_v">>], xv.shape[2]))))

\* The two halves of ResidualAttentionBlock.forward, each with its adapter
\* and the adapter's skip_connect.
BlockAttentionHalf(P, name, x, skip_connect) ==
    Let1(x, LAMBDA xv :
        TAdd(TAdd(xv, ResAttention(P, name, LayerNorm(xv))),
             Adapter(P, name \o <<"S_Adapter">>, xv, skip_connect)))

BlockMlpHalf(P, name, x, skip_connect) ==
    Let1(x, LAMBDA xv :
        TAdd(TAdd(xv, Mlp(P, name \o <<"mlp">>, LayerNorm(xv))),
             Adapter(P, name \o <<"MLP_Adapter">>, xv, skip_connect)))

\* A variant whose adapters keep their skip connection (Adapter's default).
ResidualAttentionBlock_SkipConnect(P, i, x) ==
    BlockMlpHalf(P, <<"resblocks", Str(i)>>,
                 BlockAttentionHalf(P, <<"resblocks", Str(i)>>, x, TRUE), TRUE)

\* ResidualAttentionBlock.forward, lines 200-212 (checkpoint(f, x) is f(x));
\* the adapters are constructed with skip_connect=False, lines 184-186.
ResidualAttentionBlock(P, i, x) ==
    BlockMlpHalf(P, <<"resblocks", Str(i)>>,
                 BlockAttentionHalf(P, <<"resblocks", Str(i)>>, x, FALSE), FALSE)

\* A variant whose keys and values are the first non-cls token of every
\* frame of the batch instead of the non-cls tokens of the frame itself.
AggAttention_OverFrames(P, name, x) ==
    Let1(x, LAMBDA xv :
        Let1(MkTensor(<<xv.shape[2], xv.shape[2], xv.shape[3]>>,
                      LAMBDA i : At(xv, <<1, i[1], i[3]>>)), LAMBDA kv :
            MultiheadAttention(P, name \o <<"attn">>, SliceTo(xv, 1), kv, kv)))

\* AggregationBlock.attention, lines 249-251: the cls token attends to others
AggAttention(P, name, x) ==
    Let1(x, LAMBDA xv :
        MultiheadAttention(P, name \o <<"attn">>, SliceTo(xv, 1), SliceFrom(xv, 1), SliceFrom(xv, 1)))

\* AggregationBlock.forward, lines 253-256
AggregationBlock(P, i, x, cls) ==
    Let1(TAdd(cls, AggAttention(P, <<"aggblocks", Str(i)>>, LayerNorm(Concat0(cls, x)))),
         LAMBDA cls1 :
            TAdd(cls1, Mlp(P, <<"aggblocks", Str(i), "mlp">>, LayerNorm(cls1))))

(***************************************************************************)
(* The temporal modules on their own: an input of shape (L, N*T, D) is     *)
(* drawn, and either module is applied to it.                              *)
(***************************************************************************)
NoTensor == [shape |-> <<>>, data |-> <<>>]

VARIABLES
    tpc,      \* "input", "unfolded" or "aggregated"
    tx,       \* the input, of shape (L, N*T, D)
    tT,       \* T, the frames of one video
    unf,      \* the result of UnfoldTemporalWindows.forward
    tagg,     \* the result of TemporalAggregationBlock.forward
    \* Transformer.forward(x, T), and beside it the same call on a batch that
    \* differs from x in the tokens of one frame only
    fpc,      \* "idle", "call", "res", "agg", "temporal" or "done"
    params,   \* the parameters of the transformer, by name
    loaded,   \* whether the parameters are those of a trained checkpoint
    fT,       \* T
    x0,       \* x as passed by the caller
    x,        \* the local x
    xin,      \* the value of x that the last residual block was applied to
    query,    \* the local query
    li,       \* the loop index i
    out,      \* the token tensor returned, in eighths
    pf,       \* the frame in which the second batch differs
    sx0, sx, squery,    \* x0, x and query of the call on the second batch
    \* build_model(state_dict)
    bpc,        \* "idle", "call", "inferred", "constructed", "meta", "visual",
                \* "returned" or "raised"
    state_dict, \* the caller's dictionary: a function of keys
    passed,     \* the dictionary as the caller passed it
    hyper,      \* the hyperparameters read off the dictionary
    model,      \* the CLIP model, once constructed
    raised,     \* the exception that ended the call
    \* ModifiedResNet.forward(x)
    rpc,        \* "idle", "call", "stem", "layer", "pool", "returned" or "raised"
    rnet,       \* the hyperparameters of the ModifiedResNet
    rin,        \* the shape (C, H, W) of the input
    feat,       \* the shape (C, H, W) of the feature map
    stage,      \* the residual layer to run next (1..4)
    joins       \* the shapes <<main, identity>> met at every residual addition

temporalVars == <<tpc, tx, tT, unf, tagg>>
forwardVars == <<fpc, params, loaded, fT, x0, x, xin, query, li, out, pf, sx0, sx, squery>>
buildVars == <<bpc, state_dict, passed, hyper, model, raised>>
resnetVars == <<rpc, rnet, rin, feat, stage, joins>>
vars == <<temporalVars, forwardVars, buildVars, resnetVars>>

ForwardIdle ==
    /\ fpc = "idle"
    /\ params = <<>>
    /\ loaded = FALSE
    /\ fT = 0
    /\ li = 0
    /\ pf = 0
    /\ x0 = NoTensor /\ x = NoTensor /\ xin = NoTensor /\ query = NoTensor
    /\ out = NoTensor /\ sx0 = NoTensor /\ sx = NoTensor /\ squery = NoTensor

NoModel == [visual |-> "none"]
NoError == [error |-> "none", line |-> 0]

BuildIdle ==
    /\ bpc = "idle"
    /\ state_dict = <<>> /\ passed = <<>> /\ hyper = <<>>
    /\ model = NoModel
    /\ raised = NoError

ResNetIdle ==
    /\ rpc = "idle"
    /\ rnet = <<>> /\ rin = <<>> /\ feat = <<>> /\ joins = <<>>
    /\ stage = 0

TemporalIdle ==
    /\ tpc = "idle"
    /\ tT = 0
    /\ tx = NoTensor /\ unf = NoTensor /\ tagg = NoTensor

TemporalInit ==
    /\ tpc = "input"
    /\ \E v \in 1..MaxVideos, T \in 1..MaxT, L \in 2..MaxTokens,
          D \in 1..MaxD, seed \in 0..MaxSeed :
          /\ tT = T
          /\ tx = GenTensor(seed, <<L, v * T, D>>)
    /\ unf = NoTensor
    /\ tagg = NoTensor
    /\ ForwardIdle /\ BuildIdle /\ ResNetIdle

\* The drawn elements as an input of shape (N*T, C, P) = (N*T, D, L).
UnfoldInput == View(tx, <<tx.shape[2], tx.shape[3], tx.shape[1]>>)

\* self.upfold(x, T) on x of shape (N*T, C, P)
CallUnfold ==
    /\ tpc = "input"
    /\ tpc' = "unfolded"
    /\ unf' = UnfoldTemporalWindows(UnfoldInput, tT)
    /\ UNCHANGED <<tx, tT, tagg, forwardVars, buildVars, resnetVars>>

\* self.taggblocks(x, T) on x of shape (L, N*T, D)
CallTemporalAggregation ==
    /\ tpc = "input"
    /\ tpc' = "aggregated"
    /\ tagg' = TemporalAggregationBlock(tx, tT)
    /\ UNCHANGED <<tx, tT, unf, forwardVars, buildVars, resnetVars>>

TemporalNext == CallUnfold \/ CallTemporalAggregation

SpecTemporal == TemporalInit /\ [][TemporalNext]_vars

(***************************************************************************)
(* C6.  UnfoldTemporalWindows(5) on an input of shape (N*T, C, P) returns  *)
(* shape (N*T, C, 5*P), and for every video n, frame t, window slot s,     *)
(* channel c and patch p, out[n*T + t, c, s*P + p] is in[n*T + t+s-2, c, p]*)
(* when frame t+s-2 lies in the video (0 <= t+s-2 < T) and 0 otherwise: no *)
(* window holds a patch of another video.                                  *)
(***************************************************************************)
UnfoldWindowsOfOwnVideo ==
    tpc = "unfolded" =>
        LET NT == UnfoldInput.shape[1]
            C  == UnfoldInput.shape[2]
            P  == UnfoldInput.shape[3]
        IN  /\ unf.shape = <<NT, C, window_size * P>>
            /\ \A n \in 0..(NT \div tT) - 1, t \in 0..tT - 1, s \in 0..window_size - 1,
                  c \in 0..C - 1, p \in 0..P - 1 :
                  At(unf, <<n * tT + t, c, s * P + p>>) =
                      IF 0 <= t + s - 2 /\ t + s - 2 < tT
                      THEN At(UnfoldInput, <<n * tT + (t + s - 2), c, p>>)
                      ELSE 0

\* The last frame of the first of two videos: its last window slot lies past
\* the video, where the batch holds a non-zero patch of the second video.
UnfoldAtVideoBoundary ==
    /\ tpc = "unfolded"
    /\ tT >= 3
    /\ UnfoldInput.shape[1] = 2 * tT
    /\ At(UnfoldInput, <<tT + 1, 0, 0>>) # 0
    /\ At(unf, <<tT - 1, 0, 4 * UnfoldInput.shape[3]>>) = 0
    /\ At(unf, <<tT - 1, 0, 2 * UnfoldInput.shape[3]>>) = At(UnfoldInput, <<tT - 1, 0, 0>>)

(***************************************************************************)
(* C7.  TemporalAggregationBlock.forward(x, T) on x of shape (L, N, D)     *)
(* returns shape (1, N, D).  With y = ln_1(x), the result for frame t of   *)
(* video n is the sum, over the window slots s whose frame t+s-2 lies in   *)
(* the video and over the non-cls tokens k = y[1+p] of that frame, of      *)
(* (sigmoid(q.k/sqrt(D)) - 0.5) * k with q = y[0] of the frame itself: the *)
(* slots outside the video add nothing.                                    *)
(***************************************************************************)
WindowCorrelation(y, T, f, d) ==
    LET L == y.shape[1]
        D == y.shape[3]
        n == f \div T
        t == f % T
        Term(s, p) ==
            LET g == n * T + (t + s - 2)
                a == SumTo(D, LAMBDA e : At(y, <<0, f, e>>) * At(y, <<1 + p, g, e>>))
            IN  IF 0 <= t + s - 2 /\ t + s - 2 < T
                THEN SigmoidMinusHalf(a, D) * At(y, <<1 + p, g, d>>)
                ELSE 0
    IN  SumTo(window_size, LAMBDA s : SumTo(L - 1, LAMBDA p : Term(s, p)))

TemporalAggregationIsWindowCorrelation ==
    tpc = "aggregated" =>
        LET N == tx.shape[2]
            D == tx.shape[3]
            y == LayerNorm(tx)
        IN  /\ tagg.shape = <<1, N, D>>
            /\ \A f \in 0..N - 1, d \in 0..D - 1 :
                  At(tagg, <<0, f, d>>) = WindowCorrelation(y, tT, f, d)

\* Two videos of two frames each: every window has slots outside its video,
\* and the correlation of the first frame is not zero.
TemporalAggregationWithPadding ==
    /\ tpc = "aggregated"
    /\ tT = 2
    /\ tx.shape[2] = 4
    /\ \E d \in 0..tx.shape[3] - 1 : At(tagg, <<0, 0, d>>) # 0

(***************************************************************************)
(* Transformer.forward (lines 351-360) on the transformer of a             *)
(* VisionTransformer: freshly constructed, or after load_state_dict of a   *)
(* checkpoint of a trained model.                                          *)
(***************************************************************************)
MaxLayers == 2      \* layers of a transformer
FwdWidths == {2, 4}  \* d_model: an adapter has d_model \div 4 hidden units
FwdTs     == {1, 2}  \* frames per video
FwdVideos == {2}     \* videos per batch
FwdSeeds  == {0, 1}

\* len(self.resblocks)
Layers(P) ==
    Cardinality({i \in 0..9 : <<"resblocks", Str(i), "attn", "in_proj_weight">> \in DOMAIN P})

\* x with the tokens of frame f replaced by those of y
WithFrame(a, f, b) ==
    Let2(a, b, LAMBDA u, v :
        MkTensor(u.shape, LAMBDA idx : IF idx[2] = f THEN At(v, idx) ELSE At(u, idx)))

ForwardInit ==
    /\ fpc = "call"
    /\ \E v \in FwdVideos, T \in FwdTs, L \in 2..MaxTokens, D \in FwdWidths,
          layers \in 1..MaxLayers, seed \in FwdSeeds, trained \in BOOLEAN :
          /\ fT = T
          /\ loaded = trained
          /\ params = IF trained THEN TrainedParams(D, layers, seed)
                                 ELSE FreshParams(D, layers, seed)
          /\ x0 = GenTensor(seed, <<L, v * T, D>>)
          /\ pf \in {0, v * T - 1}
          /\ sx0 = WithFrame(x0, pf, GenTensor(seed + 1, <<L, v * T, D>>))
    /\ x = x0
    /\ sx = sx0
    /\ xin = NoTensor /\ query = NoTensor /\ squery = NoTensor /\ out = NoTensor
    /\ li = 0
    /\ TemporalIdle /\ BuildIdle /\ ResNetIdle

\* lines 352-353
ForwardEnter ==
    /\ fpc = "call"
    /\ fpc' = "res"
    /\ query' = Repeat1(params[<<"query">>], x.shape[2])
    /\ squery' = Repeat1(params[<<"query">>], sx.shape[2])
    /\ UNCHANGED <<params, loaded, fT, x0, x, xin, li, out, pf, sx0, sx, temporalVars, buildVars, resnetVars>>

\* line 355
ForwardResBlock ==
    /\ fpc = "res"
    /\ fpc' = "agg"
    /\ xin' = x
    /\ x' = ResidualAttentionBlock(params, li, x)
    /\ sx' = ResidualAttentionBlock(params, li, sx)
    /\ UNCHANGED <<params, loaded, fT, x0, query, li, out, pf, sx0, squery, temporalVars, buildVars, resnetVars>>

\* A variant whose aggregation blocks all start from the learned query.
ForwardAggBlock_FromLearnedQuery ==
    /\ fpc = "agg"
    /\ query' = AggregationBlock(params, li, x, Repeat1(params[<<"query">>], x.shape[2]))
    /\ squery' = AggregationBlock(params, li, sx, Repeat1(params[<<"query">>], sx.shape[2]))
    /\ li' = li + 1
    /\ fpc' = IF li + 1 < Layers(params) THEN "res" ELSE "temporal"
    /\ UNCHANGED <<params, loaded, fT, x0, x, xin, out, pf, sx0, sx, temporalVars, buildVars, resnetVars>>

\* line 357, and the loop's step
ForwardAggBlock ==
    /\ fpc = "agg"
    /\ query' = AggregationBlock(params, li, x, query)
    /\ squery' = AggregationBlock(params, li, sx, squery)
    /\ li' = li + 1
    /\ fpc' = IF li + 1 < Layers(params) THEN "res" ELSE "temporal"
    /\ UNCHANGED <<params, loaded, fT, x0, x, xin, out, pf, sx0, sx, temporalVars, buildVars, resnetVars>>

\* A variant that adds the temporal term to the cls token only.
AddTemporal_ClsOnly(a, t, w) ==
    Let3(a, t, w, LAMBDA av, tv, wv :
        MkTensor(av.shape, LAMBDA idx :
            8 * At(av, idx)
            + (IF idx[1] = 0 THEN At(tv, <<0, idx[2], idx[3]>>) * At(wv, <<0>>) ELSE 0)))

\* x + t * w for t of shape (1, N, D) and w of shape (1), in eighths as t is
AddTemporal(a, t, w) ==
    Let3(a, t, w, LAMBDA av, tv, wv :
        MkTensor(av.shape, LAMBDA idx :
            8 * At(av, idx) + At(tv, <<0, idx[2], idx[3]>>) * At(wv, <<0>>)))

\* lines 359-360
ForwardTemporal ==
    /\ fpc = "temporal"
    /\ fpc' = "done"
    /\ out' = AddTemporal(x, TemporalAggregationBlock(x, fT), params[<<"temporal_ada_weight">>])
    /\ UNCHANGED <<params, loaded, fT, x0, x, xin, query, li, pf, sx0, sx, squery, temporalVars, buildVars, resnetVars>>

ForwardNext == ForwardEnter \/ ForwardResBlock \/ ForwardAggBlock \/ ForwardTemporal

SpecForward == ForwardInit /\ [][ForwardNext]_vars

(***************************************************************************)
(* C1.  After a VisionTransformer is constructed, the c_out weight and     *)
(* bias of every S_Adapter and MLP_Adapter of every residual block are all *)
(* zero; each adapter returns zero for its input, and                      *)
(* ResidualAttentionBlock.forward returns x + attention(ln_1(x)) followed  *)
(* by x' + mlp(ln_2(x')), its value with both adapters removed.            *)
(***************************************************************************)
FreshlyConstructed == fpc # "idle" /\ ~loaded

IsZero(t) == \A k \in 1..Len(t.data) : t.data[k] = 0

\* The block with both adapters removed
BlockWithoutAdapters(P, i, xa) ==
    Let1(TAdd(xa, ResAttention(P, <<"resblocks", Str(i)>>, LayerNorm(xa))), LAMBDA x1 :
        TAdd(x1, Mlp(P, <<"resblocks", Str(i), "mlp">>, LayerNorm(x1))))

AdaptersStartAsIdentity ==
    FreshlyConstructed =>
        /\ \A i \in 0..Layers(params) - 1, a \in {"S_Adapter", "MLP_Adapter"},
              p \in {"weight", "bias"} :
              IsZero(params[<<"resblocks", Str(i), a, "mlp", "c_out", p>>])
        /\ fpc = "agg" =>
              /\ IsZero(Adapter(params, <<"resblocks", Str(li), "S_Adapter">>, xin, FALSE))
              /\ IsZero(Adapter(params, <<"resblocks", Str(li), "MLP_Adapter">>,
                                BlockAttentionHalf(params, <<"resblocks", Str(li)>>, xin, FALSE),
                                FALSE))
              /\ x = BlockWithoutAdapters(params, li, xin)

\* A constructed block has been applied to an input on which the hidden
\* units of its S_Adapter are active, and has changed the input.
AdapterZeroOnActiveInput ==
    /\ FreshlyConstructed
    /\ fpc = "agg"
    /\ ~IsZero(QuickGELU(LinearAt(params, <<"resblocks", Str(li), "S_Adapter", "mlp", "c_in">>, xin)))
    /\ x # xin

(***************************************************************************)
(* C5.  The cls-token aggregation path is per frame: the query that        *)
(* Transformer.forward returns for one frame depends on the tokens of that *)
(* frame only.  Two calls whose inputs differ in the tokens of frame pf    *)
(* only hold the same query for every other frame, at every step.          *)
(***************************************************************************)
SameFrame(a, b, f) ==
    \A l \in 0..a.shape[1] - 1, d \in 0..a.shape[3] - 1 : At(a, <<l, f, d>>) = At(b, <<l, f, d>>)

QueryOfFrameIgnoresOtherFrames ==
    fpc \in {"res", "agg", "temporal", "done"} =>
        \A f \in 0..x0.shape[2] - 1 : f # pf => SameFrame(query, squery, f)

\* Both calls have returned; the inputs differ in frame pf, and so do the
\* queries returned for frame pf.
QueryOfChangedFrameDiffers ==
    /\ fpc = "done"
    /\ ~SameFrame(x0, sx0, pf)
    /\ ~SameFrame(query, squery, pf)

\* The claim as stated: a change of the tokens of frame pf only changes the
\* query returned for another frame.
QueryOfFrameDependsOnOtherFrames ==
    (fpc = "done" /\ ~SameFrame(x0, sx0, pf)) =>
        \E f \in 0..x0.shape[2] - 1 : f # pf /\ ~SameFrame(query, squery, f)

(***************************************************************************)
(* C8.  Transformer.forward runs the layers in order: residual block i is  *)
(* applied to the output of residual block i-1 (the input for i = 0), and  *)
(* aggregation block i to the output of residual block i and the query of  *)
(* aggregation block i-1 (the learned query repeated over the batch for    *)
(* i = 0); the aggregation blocks leave x as it is, and the temporal term  *)
(* is added once, after the last layer.                                    *)
(***************************************************************************)
\* <<x, query>> after i layers on the input xa
RECURSIVE AfterLayers(_, _, _)
AfterLayers(P, xa, i) ==
    IF i = 0 THEN <<xa, Repeat1(P[<<"query">>], xa.shape[2])>>
    ELSE Let1(AfterLayers(P, xa, i - 1), LAMBDA before :
            Let1(ResidualAttentionBlock(P, i - 1, before[1]), LAMBDA xi :
                <<xi, AggregationBlock(P, i - 1, xi, before[2])>>))

XAfter(P, xa, i) == AfterLayers(P, xa, i)[1]
QAfter(P, xa, i) == AfterLayers(P, xa, i)[2]

LayersRunInOrder ==
    /\ fpc \in {"res", "temporal", "done"} =>
          /\ <<x, query>> = AfterLayers(params, x0, li)
          /\ IF fpc = "res" THEN li < Layers(params) ELSE li = Layers(params)
    /\ fpc = "agg" =>
          /\ <<xin, query>> = AfterLayers(params, x0, li)
          /\ x = ResidualAttentionBlock(params, li, xin)
    /\ IF fpc = "done"
       THEN out = AddTemporal(x, TemporalAggregationBlock(x, fT),
                              params[<<"temporal_ada_weight">>])
       ELSE out = NoTensor

\* A call on two layers has returned: both aggregation blocks changed the
\* query, and the temporal term is part of the result.
TwoLayersDone ==
    /\ fpc = "done"
    /\ Layers(params) = 2
    /\ QAfter(params, x0, 1) # QAfter(params, x0, 0)
    /\ query # QAfter(params, x0, 1)
    /\ x # XAfter(params, x0, 1)
    /\ \E k \in 1..Len(out.data) : out.data[k] # 8 * x.data[k]

(***************************************************************************)
(* The parameters of a CLIP model of this file, by their state_dict keys   *)
(* (lines 436-465), and dictionaries saved from such models.               *)
(***************************************************************************)
MaxBlocks == 2      \* residual blocks of the model a dictionary was saved from
MaxRows   == 5      \* rows of a saved positional embedding

\* k.startswith(p), k.endswith(p), w in k
StartsWith(k, p) == Len(k) >= Len(p) /\ SubSeq(k, 1, Len(p)) = p
EndsWith(k, p) == Len(k) >= Len(p) /\ SubSeq(k, Len(k) - Len(p) + 1, Len(k)) = p
Contains(k, w) == \E i \in 1..(Len(k) - Len(w) + 1) : SubSeq(k, i, i + Len(w) - 1) = w

\* k.split(".")[n] for a key k of more than n parts
Dots(k) == {i \in 1..Len(k) : SubSeq(k, i, i) = "."}
Cut(k, n) ==
    IF n = 0 THEN 0
    ELSE IF n > Cardinality(Dots(k)) THEN Len(k) + 1
    ELSE CHOOSE i \in Dots(k) : Cardinality({j \in Dots(k) : j <= i}) = n
Part(k, n) == SubSeq(k, Cut(k, n) + 1, Cut(k, n + 1) - 1)

\* ".".join(name)
RECURSIVE Join(_)
Join(name) == IF Len(name) = 1 THEN name[1] ELSE name[1] \o "." \o Join(Tail(name))

\* The function of a set of <<key, value>> pairs with distinct keys
FromPairs(pairs) ==
    [k \in {pr[1] : pr \in pairs} |-> (CHOOSE pr \in pairs : pr[1] = k)[2]]

\* LayerNorm(d) under a key
NormShapes(key, d) == (key \o ".weight") :> <<d>> @@ (key \o ".bias") :> <<d>>

\* Transformer.__init__ under the key visual.transformer, the LayerNorms of
\* its blocks included
VisualTransformerShapes(width, layers) ==
    Let1(TransformerShapes(width, layers), LAMBDA t :
        FromPairs({<<"visual.transformer." \o Join(n), t[n]>> : n \in DOMAIN t}
            \cup {<<"visual.transformer." \o b \o "." \o Str(i) \o "." \o ln \o "." \o wb, <<width>>>> :
                     b \in {"resblocks", "aggblocks"}, i \in 0..layers - 1,
                     ln \in {"ln_1", "ln_2"}, wb \in {"weight", "bias"}})
        @@ NormShapes("visual.transformer.taggblocks.ln_1", width))

\* A variant whose positional embedding has a row for every pixel of a side.
VisionTransformerShapes_PixelRows(input_resolution, patch_size, width, layers, output_dim) ==
    "visual.conv1.weight" :> <<width, 3, patch_size, patch_size>>
        @@ "visual.class_embedding" :> <<width>>
        @@ "visual.positional_embedding" :> <<input_resolution * input_resolution + 1, width>>
        @@ NormShapes("visual.ln_pre", width)
        @@ VisualTransformerShapes(width, layers)
        @@ NormShapes("visual.ln_post", width)
        @@ NormShapes("visual.ln_post_cls", width)
        @@ "visual.proj" :> <<width, output_dim>>
        @@ "visual.ada_weight" :> <<2>>

\* VisionTransformer.__init__, lines 368-387
VisionTransformerShapes(input_resolution, patch_size, width, layers, output_dim) ==
    "visual.conv1.weight" :> <<width, 3, patch_size, patch_size>>
        @@ "visual.class_embedding" :> <<width>>
        @@ "visual.positional_embedding" :>
               <<(input_resolution \div patch_size) * (input_resolution \div patch_size) + 1, width>>
        @@ NormShapes("visual.ln_pre", width)
        @@ VisualTransformerShapes(width, layers)
        @@ NormShapes("visual.ln_post", width)
        @@ NormShapes("visual.ln_post_cls", width)
        @@ "visual.proj" :> <<width, output_dim>>
        @@ "visual.ada_weight" :> <<2>>

\* Bottleneck.__init__, lines 13-40: whether the block has a downsample branch
HasDownsample_StrideOnly(inplanes, planes, stride) == stride > 1

HasDownsample(inplanes, planes, stride) == stride > 1 \/ inplanes # planes * 4

\* ModifiedResNet._make_layer, lines 129-136: the blocks of one layer, each
\* with the arguments of its Bottleneck
MakeLayer_NoBlocks(inplanes, planes, blocks, stride) ==
    [j \in 1..blocks |->
        IF j = 1 THEN [inplanes |-> inplanes, planes |-> planes, stride |-> stride]
        ELSE [inplanes |-> planes * 4, planes |-> planes, stride |-> 1]] \o <<>>

MakeLayer(inplanes, planes, blocks, stride) ==
    <<[inplanes |-> inplanes, planes |-> planes, stride |-> stride]>>
        \o ([j \in 1..blocks - 1 |->
                [inplanes |-> planes * 4, planes |-> planes, stride |-> 1]] \o <<>>)

\* ModifiedResNet.__init__, lines 120-124: layer1 .. layer4
ResNetLayers(width, layers) ==
    <<MakeLayer(width, width, layers[1], 1),
      MakeLayer(width * 4, width * 2, layers[2], 2),
      MakeLayer(width * 8, width * 4, layers[3], 2),
      MakeLayer(width * 16, width * 8, layers[4], 2)>>

BottleneckShapes(key, b) ==
    (key \o ".conv1.weight") :> <<b.planes, b.inplanes, 1, 1>>
        @@ (key \o ".conv2.weight") :> <<b.planes, b.planes, 3, 3>>
        @@ (key \o ".conv3.weight") :> <<b.planes * 4, b.planes, 1, 1>>
        @@ (key \o ".bn3.weight") :> <<b.planes * 4>>
        @@ (IF HasDownsample(b.inplanes, b.planes, b.stride)
            THEN (key \o ".downsample.0.weight") :> <<b.planes * 4, b.inplanes, 1, 1>>
            ELSE <<>>)

\* AttentionPool2d.__init__, lines 59-66
AttentionPoolShapes(spacial_dim, embed_dim, output_dim) ==
    "visual.attnpool.positional_embedding" :> <<spacial_dim * spacial_dim + 1, embed_dim>>
        @@ "visual.attnpool.k_proj.weight" :> <<embed_dim, embed_dim>>
        @@ "visual.attnpool.k_proj.bias" :> <<embed_dim>>
        @@ "visual.attnpool.c_proj.weight" :> <<output_dim, embed_dim>>
        @@ "visual.attnpool.c_proj.bias" :> <<output_dim>>

Pairs(f) == {<<k, f[k]>> : k \in DOMAIN f}

\* ModifiedResNet.__init__, lines 102-127
ModifiedResNetShapes(layers, output_dim, input_resolution, width) ==
    Let1(ResNetLayers(width, layers), LAMBDA made :
        "visual.conv1.weight" :> <<width \div 2, 3, 3, 3>>
            @@ "visual.conv2.weight" :> <<width \div 2, width \div 2, 3, 3>>
            @@ "visual.conv3.weight" :> <<width, width \div 2, 3, 3>>
            @@ FromPairs(UNION {UNION {Pairs(BottleneckShapes(
                                          "visual.layer" \o Str(b) \o "." \o Str(j - 1),
                                          made[b][j])) : j \in 1..Len(made[b])} :
                                b \in 1..4})
            @@ AttentionPoolShapes(input_resolution \div 32, width * 32, output_dim))

\* A value of a dictionary or of a model: its shape, and where it is from
Value(shape, from) == [shape |-> shape, from |-> from]

\* Python's int and tuple values of vision_layers
PyInt(n) == [type |-> "int", value |-> n]
PyTuple(t) == [type |-> "tuple", value |-> t]

\* nn.MultiheadAttention(embed_dim, num_heads): what its constructor raises
MultiheadAttentionError(embed_dim, num_heads) ==
    IF num_heads = 0 THEN "ZeroDivisionError"
    ELSE IF (embed_dim \div num_heads) * num_heads # embed_dim THEN "AssertionError"
    ELSE "none"

\* CLIP.__init__, lines 447-465: the exception of the construction, if any
CLIPError(embed_dim, image_resolution, vision_layers, vision_width, vision_patch_size) ==
    IF vision_layers.type = "tuple" \/ vision_layers.value = 0
    THEN NoError
    ELSE [error |-> MultiheadAttentionError(vision_width, vision_width \div 64),
          line  |-> IF MultiheadAttentionError(vision_width, vision_width \div 64) = "none"
                    THEN 0 ELSE 175]

\* CLIP.__init__, lines 447-465: the model constructed
CLIP(embed_dim, image_resolution, vision_layers, vision_width, vision_patch_size) ==
    IF vision_layers.type = "tuple"
    THEN [visual           |-> "ModifiedResNet",
          layers           |-> ResNetLayers(vision_width, vision_layers.value),
          output_dim       |-> embed_dim,
          heads            |-> (vision_width * 32) \div 64,
          input_resolution |-> image_resolution,
          width            |-> vision_width,
          params           |->
              Let1(ModifiedResNetShapes(vision_layers.value, embed_dim,
                                        image_resolution, vision_width), LAMBDA sh :
                  [k \in DOMAIN sh |-> Value(sh[k], "init")])]
    ELSE [visual           |-> "VisionTransformer",
          input_resolution |-> image_resolution,
          patch_size       |-> vision_patch_size,
          width            |-> vision_width,
          layers           |-> vision_layers.value,
          heads            |-> vision_width \div 64,
          output_dim       |-> embed_dim,
          params           |->
              Let1(VisionTransformerShapes(image_resolution, vision_patch_size,
                                           vision_width, vision_layers.value, embed_dim),
                   LAMBDA sh : [k \in DOMAIN sh |-> Value(sh[k], "init")])]

(***************************************************************************)
(* Dictionaries passed to build_model: the state_dict of a CLIP model with *)
(* a VisionTransformer (of OpenAI's CLIP, or of this file, which adds the  *)
(* adapters, the prefixes and the aggregation blocks) or with a            *)
(* ModifiedResNet, with or without the entries of the text tower and of a  *)
(* JIT archive, with any row count of the positional embedding, and        *)
(* possibly with one entry missing.                                        *)
(***************************************************************************)
BuildWidths    == {32, 64, 200}
BuildPatches   == {1, 2}
BuildEmbedDims == {3}
ResNetWidths   == {2, 64}

Saved(shapes) == [k \in DOMAIN shapes |-> Value(shapes[k], "checkpoint")]

TextEntries(e) ==
    Saved("text_projection" :> <<4, e>>
            @@ "positional_embedding" :> <<7, 4>>
            @@ "transformer.resblocks.0.attn.in_proj_weight" :> <<12, 4>>
            @@ "logit_scale" :> <<>>
            @@ "extra.visual_scale" :> <<>>)

MetaEntries ==
    Saved("input_resolution" :> <<>> @@ "context_length" :> <<>> @@ "vocab_size" :> <<>>)

\* The keys of this file's VisionTransformer that OpenAI's has as well
InOriginalCLIP(k) ==
    /\ ~Contains(k, "Adapter")
    /\ ~Contains(k, "prefix_embedding")
    /\ ~Contains(k, "aggblocks")
    /\ ~Contains(k, "ln_post_cls")
    /\ ~Contains(k, "ada_weight")
    /\ ~Contains(k, "transformer.query")

Without(d, key) == [k \in DOMAIN d \ {key} |-> d[k]]

ViTDict(own, w, L, p, rows, e) ==
    Let1(VisionTransformerShapes(p, p, w, L, e), LAMBDA sh :
        Saved([k \in {kk \in DOMAIN sh : own \/ InOriginalCLIP(kk)} |->
                  IF k = "visual.positional_embedding" THEN <<rows, w>> ELSE sh[k]]))

\* The blocks of layers 1..4 whose indices are in sets[1..4]
ResNetDict(w, sets, rows, e) ==
    Let1(ResNetLayers(w, <<1, 1, 1, 1>>), LAMBDA first :
        Saved("visual.conv1.weight" :> <<w \div 2, 3, 3, 3>>
            @@ FromPairs(UNION {UNION {Pairs(BottleneckShapes(
                    "visual.layer" \o Str(b) \o "." \o Str(j),
                    IF j = 0 THEN first[b][1]
                    ELSE [inplanes |-> first[b][1].planes * 4,
                          planes   |-> first[b][1].planes,
                          stride   |-> 1])) : j \in sets[b]} : b \in 1..4})
            @@ "visual.attnpool.positional_embedding" :> <<rows, w * 32>>
            @@ "visual.attnpool.c_proj.weight" :> <<e, w * 32>>))

\* The index sets {0..n-1} of a layer of at most MaxBlocks blocks, and one
\* with a gap
BlockSets(least) == {0..n - 1 : n \in least..MaxBlocks} \cup {{0, 2}}

BuildInputs(e) ==
    {ViTDict(own, w, L, p, rows, e) :
        own \in BOOLEAN, w \in BuildWidths, L \in 1..MaxBlocks, p \in BuildPatches,
        rows \in 0..MaxRows}
    \cup {ResNetDict(w, <<s1, s2, {0}, s4>>, rows, e) :
        w \in ResNetWidths, s1 \in BlockSets(1), s2 \in BlockSets(0), s4 \in {{}, {0}},
        rows \in 0..MaxRows}

BuildDropped ==
    {"", "visual.conv1.weight", "visual.positional_embedding",
     "visual.layer1.0.conv1.weight", "visual.attnpool.positional_embedding"}

(***************************************************************************)
(* build_model, lines 532-567                                              *)
(***************************************************************************)
\* round(n ** 0.5) for n >= 0: the integer nearest to the square root
RoundSqrt(n) ==
    CHOOSE r \in 0..n : /\ (r = 0 \/ (2 * r - 1) * (2 * r - 1) < 4 * n)
                        /\ 4 * n < (2 * r + 1) * (2 * r + 1)

Error(error, line) == [error |-> error, line |-> line]

\* lines 533-550: the exception raised, or NoError
InferError(sd) ==
    LET Rows(key) == sd[key].shape[1]
        RowsError(key, line) ==
            IF key \notin DOMAIN sd THEN Error("KeyError", line)
            ELSE IF Rows(key) - 1 < 0 THEN Error("TypeError", line)
            ELSE NoError
        branch ==
            IF "visual.proj" \in DOMAIN sd
            THEN IF "visual.conv1.weight" \notin DOMAIN sd THEN Error("KeyError", 536)
                 ELSE RowsError("visual.positional_embedding", 539)
            ELSE IF "visual.layer1.0.conv1.weight" \notin DOMAIN sd THEN Error("KeyError", 544)
                 ELSE IF RowsError("visual.attnpool.positional_embedding", 545) # NoError
                      THEN RowsError("visual.attnpool.positional_embedding", 545)
                 ELSE IF RoundSqrt(Rows("visual.attnpool.positional_embedding") - 1)
                            * RoundSqrt(Rows("visual.attnpool.positional_embedding") - 1) + 1
                         # Rows("visual.attnpool.positional_embedding")
                      THEN Error("AssertionError", 547)
                 ELSE NoError
    IN  IF branch # NoError THEN branch
        ELSE IF "text_projection" \notin DOMAIN sd THEN Error("KeyError", 550)
        ELSE NoError

\* lines 533-550 when nothing is raised: the locals
Infer(sd) ==
    IF "visual.proj" \in DOMAIN sd
    THEN [vit |-> TRUE,
          vision_width |-> sd["visual.conv1.weight"].shape[1],
          vision_layers |->
              PyInt(Cardinality({k \in DOMAIN sd : /\ StartsWith(k, "visual.")
                                                   /\ EndsWith(k, ".attn.in_proj_weight")})),
          vision_patch_size |->
              sd["visual.conv1.weight"].shape[Len(sd["visual.conv1.weight"].shape)],
          image_resolution |->
              sd["visual.conv1.weight"].shape[Len(sd["visual.conv1.weight"].shape)]
              * RoundSqrt(sd["visual.positional_embedding"].shape[1] - 1),
          embed_dim |-> sd["text_projection"].shape[2]]
    ELSE [vit |-> FALSE,
          vision_width |-> sd["visual.layer1.0.conv1.weight"].shape[1],
          vision_layers |->
              PyTuple([b \in 1..4 |->
                  Cardinality({Part(k, 2) : k \in {kk \in DOMAIN sd :
                                  StartsWith(kk, "visual.layer" \o Str(b))}})] \o <<>>),
          vision_patch_size |-> "None",
          image_resolution |->
              RoundSqrt(sd["visual.attnpool.positional_embedding"].shape[1] - 1) * 32,
          embed_dim |-> sd["text_projection"].shape[2]]

\* load_state_dict(sd, strict=False) on a model: the parameters after it, and
\* the keys whose shapes differ (it raises RuntimeError when there are any)
Mismatched(m, sd) ==
    {k \in DOMAIN m.params \cap DOMAIN sd : sd[k].shape # m.params[k].shape}

\* A variant that also resets the parameters the dictionary does not hold.
LoadStateDict_ResetMissing(m, sd) ==
    [m EXCEPT !.params =
        [k \in DOMAIN m.params |->
            IF k \in DOMAIN sd /\ sd[k].shape = m.params[k].shape
            THEN sd[k] ELSE Value(m.params[k].shape, "reset")]]

LoadStateDict(m, sd) ==
    [m EXCEPT !.params =
        [k \in DOMAIN m.params |->
            IF k \in DOMAIN sd /\ sd[k].shape = m.params[k].shape
            THEN sd[k] ELSE m.params[k]]]

BuildInit ==
    /\ bpc = "call"
    /\ \E e \in BuildEmbedDims, dropped \in BuildDropped, hasText \in BOOLEAN,
          hasMeta \in BOOLEAN :
          \E d \in BuildInputs(e) :
          state_dict = Without(d, dropped)
                          @@ (IF hasText THEN TextEntries(e) ELSE <<>>)
                          @@ (IF hasMeta THEN MetaEntries ELSE <<>>)
    /\ passed = state_dict
    /\ hyper = <<>>
    /\ model = NoModel
    /\ raised = NoError
    /\ TemporalIdle /\ ForwardIdle /\ ResNetIdle

\* A variant that deletes the three meta entries before it reads the shapes.
BuildInfer_DeletesFirst ==
    /\ bpc = "call"
    /\ raised' = InferError(state_dict)
    /\ IF InferError(state_dict) = NoError
       THEN bpc' = "inferred" /\ hyper' = Infer(state_dict)
       ELSE bpc' = "raised" /\ UNCHANGED hyper
    /\ state_dict' = [k \in DOMAIN state_dict
                            \ {"input_resolution", "context_length", "vocab_size"} |->
                        state_dict[k]]
    /\ UNCHANGED <<passed, model, temporalVars, forwardVars, resnetVars>>

\* lines 533-550
BuildInfer ==
    /\ bpc = "call"
    /\ raised' = InferError(state_dict)
    /\ IF InferError(state_dict) = NoError
       THEN bpc' = "inferred" /\ hyper' = Infer(state_dict)
       ELSE bpc' = "raised" /\ UNCHANGED hyper
    /\ UNCHANGED <<state_dict, passed, model, temporalVars, forwardVars, resnetVars>>

\* lines 552-555
BuildConstruct ==
    /\ bpc = "inferred"
    /\ raised' = CLIPError(hyper.embed_dim, hyper.image_resolution, hyper.vision_layers,
                           hyper.vision_width, hyper.vision_patch_size)
    /\ IF raised' = NoError
       THEN /\ bpc' = "constructed"
            /\ model' = CLIP(hyper.embed_dim, hyper.image_resolution, hyper.vision_layers,
                             hyper.vision_width, hyper.vision_patch_size)
       ELSE bpc' = "raised" /\ UNCHANGED model
    /\ UNCHANGED <<state_dict, passed, hyper, temporalVars, forwardVars, resnetVars>>

\* lines 557-559
BuildDeleteMeta ==
    /\ bpc = "constructed"
    /\ bpc' = "meta"
    /\ state_dict' = [k \in DOMAIN state_dict
                            \ {"input_resolution", "context_length", "vocab_size"} |->
                         state_dict[k]]
    /\ UNCHANGED <<passed, hyper, model, raised, temporalVars, forwardVars, resnetVars>>

\* A variant that keeps the keys that start with 'visual.' only.
BuildDeleteOthers_ByPrefix ==
    /\ bpc = "meta"
    /\ bpc' = "visual"
    /\ state_dict' = [k \in {kk \in DOMAIN state_dict : StartsWith(kk, "visual.")} |->
                         state_dict[k]]
    /\ UNCHANGED <<passed, hyper, model, raised, temporalVars, forwardVars, resnetVars>>

\* lines 561-563
BuildDeleteOthers ==
    /\ bpc = "meta"
    /\ bpc' = "visual"
    /\ state_dict' = [k \in {kk \in DOMAIN state_dict : Contains(kk, "visual")} |->
                         state_dict[k]]
    /\ UNCHANGED <<passed, hyper, model, raised, temporalVars, forwardVars, resnetVars>>

\* lines 566-567
BuildLoad ==
    /\ bpc = "visual"
    /\ model' = LoadStateDict(model, state_dict)
    /\ IF Mismatched(model, state_dict) = {}
       THEN bpc' = "returned" /\ UNCHANGED raised
       ELSE bpc' = "raised" /\ raised' = Error("RuntimeError", 566)
    /\ UNCHANGED <<state_dict, passed, hyper, temporalVars, forwardVars, resnetVars>>

BuildNext ==
    BuildInfer \/ BuildConstruct \/ BuildDeleteMeta \/ BuildDeleteOthers \/ BuildLoad

SpecBuild == BuildInit /\ [][BuildNext]_vars

\* What the checks below read off the dictionary as it was passed
Has(key) == key \in DOMAIN passed
IsPerfectSquare(n) == \E r \in 0..n : r * r = n
Built == bpc \in {"constructed", "meta", "visual", "returned"}
RaisedBeforeLoad == bpc = "raised" /\ raised.line < 566

\* The residual attention blocks of the model a ViT dictionary was saved from
SavedBlocks ==
    Cardinality({k \in DOMAIN passed : /\ StartsWith(k, "visual.transformer.resblocks.")
                                        /\ EndsWith(k, ".attn.in_proj_weight")})

(***************************************************************************)
(* C2.  For every ViT dictionary saved from a model with L residual        *)
(* attention blocks, the model that build_model returns has exactly L      *)
(* residual blocks, also when the dictionary was saved from this file's    *)
(* VisionTransformer.                                                      *)
(***************************************************************************)
BuildsAsManyBlocksAsSaved ==
    (bpc = "returned" /\ Has("visual.proj")) => model.layers = SavedBlocks

(***************************************************************************)
(* C3.  build_model takes the ViT branch exactly when the dictionary holds *)
(* 'visual.proj'.  For a ViT dictionary that holds 'text_projection',      *)
(* whose positional embedding has g*g + 1 rows (g >= 1) and whose conv1    *)
(* weight has shape (w, 3, p, p) with w // 64 >= 1 a divisor of w, it      *)
(* raises nothing and constructs a VisionTransformer of width w, patch     *)
(* size p and input resolution p*g, whose conv1 weight and positional      *)
(* embedding have the shapes of the saved ones.                            *)
(***************************************************************************)
TakesViTBranchIffProj ==
    /\ hyper # <<>> => hyper.vit = Has("visual.proj")
    /\ model # NoModel => (model.visual = "VisionTransformer") = Has("visual.proj")
    /\ raised.line \in {536, 539} => Has("visual.proj")
    /\ raised.line \in {544, 545, 547} => ~Has("visual.proj")

ViTDictOfSquareGrid ==
    /\ Has("visual.proj") /\ Has("visual.conv1.weight") /\ Has("visual.positional_embedding")
    /\ passed["visual.positional_embedding"].shape[1] >= 2
    /\ IsPerfectSquare(passed["visual.positional_embedding"].shape[1] - 1)

HeadsDivideWidth(w) == w \div 64 >= 1 /\ w % (w \div 64) = 0

ViTShapeRoundTrip ==
    LET w == passed["visual.conv1.weight"].shape[1]
        p == passed["visual.conv1.weight"].shape[4]
        g == CHOOSE r \in 1..MaxRows + 1 :
                 r * r + 1 = passed["visual.positional_embedding"].shape[1]
    IN  Built =>
            /\ model.visual = "VisionTransformer"
            /\ model.width = w
            /\ model.patch_size = p
            /\ model.input_resolution = p * g
            /\ model.params["visual.conv1.weight"].shape = passed["visual.conv1.weight"].shape
            /\ model.params["visual.positional_embedding"].shape
                  = passed["visual.positional_embedding"].shape

BuildsViTOfSavedShapes ==
    /\ TakesViTBranchIffProj
    /\ (/\ ViTDictOfSquareGrid
        /\ Has("text_projection")
        /\ HeadsDivideWidth(passed["visual.conv1.weight"].shape[1]))
       => (bpc # "raised" /\ ViTShapeRoundTrip)

\* A dictionary of a two-by-two grid of patches of side 2 has been built and
\* loaded.
BuiltViTOfGridTwo ==
    /\ bpc = "returned"
    /\ Has("visual.proj")
    /\ passed["visual.positional_embedding"].shape[1] = 5
    /\ model.patch_size = 2
    /\ model.input_resolution = 4

\* The claim as stated: every ViT dictionary of a square grid is built.
BuildsViTOfEverySquareGrid ==
    /\ TakesViTBranchIffProj
    /\ ViTDictOfSquareGrid => (bpc # "raised" /\ ViTShapeRoundTrip)

(***************************************************************************)
(* C4.  For a dictionary without 'visual.proj' that holds                  *)
(* 'visual.layer1.0.conv1.weight', 'text_projection' and                   *)
(* 'visual.attnpool.positional_embedding' with at least one row,           *)
(* build_model either fails the assertion of line 547, exactly when the    *)
(* row count minus 1 is not a perfect square, or constructs a              *)
(* ModifiedResNet in which layer b has as many Bottleneck blocks as there  *)
(* are distinct block indices among the keys starting with                 *)
(* 'visual.layer<b>', and one block when there are none, with input        *)
(* resolution 32 * output_width and an attention-pool positional embedding *)
(* of as many rows as the saved one.                                       *)
(***************************************************************************)
AttnPoolRows == passed["visual.attnpool.positional_embedding"].shape[1]

\* The distinct block indices among the keys of layer b
BlockIndices(b) ==
    {Part(k, 2) : k \in {kk \in DOMAIN passed : StartsWith(kk, "visual.layer" \o Str(b))}}

ResNetDictWithKeys ==
    /\ ~Has("visual.proj")
    /\ Has("visual.layer1.0.conv1.weight")
    /\ Has("visual.attnpool.positional_embedding")

FailsAssertion == bpc = "raised" /\ raised = Error("AssertionError", 547)

\* The ModifiedResNet constructed has Blocks(b) blocks in layer b
ResNetBuiltWith(Blocks(_)) ==
    /\ model.visual = "ModifiedResNet"
    /\ \A b \in 1..4 : Len(model.layers[b]) = Blocks(b)
    /\ \E ow \in 0..MaxRows + 1 :
          /\ ow * ow + 1 = AttnPoolRows
          /\ model.input_resolution = 32 * ow
    /\ model.params["visual.attnpool.positional_embedding"].shape[1] = AttnPoolRows

AtLeastOne(n) == IF n = 0 THEN 1 ELSE n

ReturnsWithVisualEntriesOnly ==
    bpc = "returned" =>
        /\ DOMAIN state_dict = {k \in DOMAIN passed : Contains(k, "visual")}
        /\ \A k \in DOMAIN state_dict : state_dict[k] = passed[k]
        /\ \A k \in {"input_resolution", "context_length", "vocab_size", "text_projection"} :
              k \notin DOMAIN state_dict
        /\ \A k \in DOMAIN model.params :
              model.params[k] = IF k \in DOMAIN state_dict THEN passed[k]
                                ELSE Value(model.params[k].shape, "init")

\* build_model has returned on a dictionary that held the entries of a JIT
\* archive, of the text tower, and a key with 'visual' past its start.
ReturnedFromFullDict ==
    /\ bpc = "returned"
    /\ Has("input_resolution") /\ Has("logit_scale") /\ Has("extra.visual_scale")
    /\ "extra.visual_scale" \in DOMAIN state_dict
    /\ \E k \in DOMAIN model.params : model.params[k].from = "checkpoint"
    /\ \E k \in DOMAIN model.params : model.params[k].from = "init"

(***************************************************************************)
(* ModifiedResNet.forward (lines 138-154) on the shapes of its tensors: a  *)
(* feature map is <<C, H, W>>, and an operator whose output would be empty *)
(* or whose inputs do not fit raises.                                      *)
(***************************************************************************)
MaxResolution == 100    \* input_resolution of a ModifiedResNet
ForwardWidths == {2}

NoShape == <<>>

\* nn.Conv2d(inC, outC, k, stride, padding) on a feature map
Conv2d(f, inC, outC, k, stride, padding) ==
    IF f = NoShape \/ f[1] # inC \/ f[2] + 2 * padding < k \/ f[3] + 2 * padding < k
    THEN NoShape
    ELSE <<outC, ((f[2] + 2 * padding - k) \div stride) + 1,
                 ((f[3] + 2 * padding - k) \div stride) + 1>>

\* nn.AvgPool2d(k) on a feature map
AvgPool2d(f, k) ==
    IF f = NoShape \/ f[2] < k \/ f[3] < k THEN NoShape
    ELSE <<f[1], ((f[2] - k) \div k) + 1, ((f[3] - k) \div k) + 1>>

\* stem, lines 139-144 (BatchNorm and ReLU keep the shape)
Stem(f, width) ==
    AvgPool2d(Conv2d(Conv2d(Conv2d(f, 3, width \div 2, 3, 2, 1),
                            width \div 2, width \div 2, 3, 1, 1),
                     width \div 2, width, 3, 1, 1), 2)

\* Bottleneck.forward, lines 42-55: the main branch before `out += identity`
BottleneckMain(b, f) ==
    Let1(Conv2d(Conv2d(f, b.inplanes, b.planes, 1, 1, 0), b.planes, b.planes, 3, 1, 1),
         LAMBDA o : Conv2d(IF b.stride > 1 THEN AvgPool2d(o, b.stride) ELSE o,
                           b.planes, b.planes * 4, 1, 1, 0))

\* ... and the identity branch
BottleneckIdentity(b, f) ==
    IF HasDownsample(b.inplanes, b.planes, b.stride)
    THEN Conv2d(AvgPool2d(f, b.stride), b.inplanes, b.planes * 4, 1, 1, 0)
    ELSE f

\* A layer (nn.Sequential of Bottlenecks) on a feature map: the feature map
\* after it, and the <<main, identity>> shapes of its residual additions
RECURSIVE RunLayer(_, _, _)
RunLayer(blocks, f, met) ==
    IF blocks = <<>> \/ f = NoShape THEN [feat |-> f, joins |-> met]
    ELSE Let2(BottleneckMain(blocks[1], f), BottleneckIdentity(blocks[1], f), LAMBDA o, id :
            RunLayer(Tail(blocks), IF o = id THEN o ELSE NoShape, Append(met, <<o, id>>)))

\* AttentionPool2d.forward, lines 68-71: the length of the sequence, and
\* whether the positional embedding of `rows` rows can be added to it
PooledLength(f) == f[2] * f[3] + 1
PositionalFits(f, rows) == rows = PooledLength(f) \/ rows = 1

ResNetInit ==
    /\ rpc = "call"
    /\ \E R \in 1..MaxResolution, w \in ForwardWidths, c1 \in 0..MaxBlocks, c3 \in 0..MaxBlocks :
          /\ rnet = [layers |-> ResNetLayers(w, <<c1, 1, c3, 1>>),
                     width |-> w,
                     input_resolution |-> R,
                     rows |-> AttentionPoolShapes(R \div 32, w * 32, 1)
                                 ["visual.attnpool.positional_embedding"][1]]
          /\ \E side \in {R, R + 1} : rin = <<3, side, side>>
    /\ feat = rin
    /\ stage = 1
    /\ joins = <<>>
    /\ TemporalIdle /\ ForwardIdle /\ BuildIdle

\* line 147
ResNetStem ==
    /\ rpc = "call"
    /\ feat' = Stem(feat, rnet.width)
    /\ rpc' = IF feat' = NoShape THEN "raised" ELSE "layer"
    /\ UNCHANGED <<rnet, rin, stage, joins, temporalVars, forwardVars, buildVars>>

\* lines 148-151: self.layer<stage>
ResNetLayer ==
    /\ rpc = "layer"
    /\ LET r == RunLayer(rnet.layers[stage], feat, joins)
       IN  /\ feat' = r.feat
           /\ joins' = r.joins
           /\ rpc' = IF r.feat = NoShape THEN "raised"
                     ELSE IF stage = 4 THEN "pool" ELSE "layer"
    /\ stage' = stage + 1
    /\ UNCHANGED <<rnet, rin, temporalVars, forwardVars, buildVars>>

\* line 152
ResNetPool ==
    /\ rpc = "pool"
    /\ rpc' = IF PositionalFits(feat, rnet.rows) THEN "returned" ELSE "raised"
    /\ UNCHANGED <<rnet, rin, feat, stage, joins, temporalVars, forwardVars, buildVars>>

ResNetNext == ResNetStem \/ ResNetLayer \/ ResNetPool

SpecResNet == ResNetInit /\ [][ResNetNext]_vars

(***************************************************************************)
(* C9.  For an input_resolution R that is a positive multiple of 32 and a  *)
(* square input of side R, ModifiedResNet.forward raises nothing; the side *)
(* of the feature map is R/4 after the stem and after layer1, R/8, R/16    *)
(* and R/32 after layers 2, 3 and 4; the two branches of every Bottleneck  *)
(* have equal shapes at the residual addition; and the pooled sequence has *)
(* (R/32)^2 + 1 elements, the rows of the positional embedding.            *)
(***************************************************************************)
\* The side a square feature map has at the current step
SideNow ==
    IF rpc = "call" THEN rnet.input_resolution
    ELSE IF rpc = "layer" /\ stage <= 2 THEN rnet.input_resolution \div 4
    ELSE IF rpc = "layer" /\ stage = 3 THEN rnet.input_resolution \div 8
    ELSE IF rpc = "layer" /\ stage = 4 THEN rnet.input_resolution \div 16
    ELSE rnet.input_resolution \div 32

ResNetSidesOfMultipleOf32 ==
    (/\ rpc # "idle"
     /\ rnet.input_resolution % 32 = 0
     /\ rin = <<3, rnet.input_resolution, rnet.input_resolution>>)
    => /\ rpc # "raised"
       /\ feat[2] = SideNow /\ feat[3] = SideNow
       /\ \A i \in 1..Len(joins) : joins[i][1] = joins[i][2]
       /\ rpc \in {"pool", "returned"} =>
             /\ Len(joins) = Len(rnet.layers[1]) + Len(rnet.layers[2])
                                + Len(rnet.layers[3]) + Len(rnet.layers[4])
             /\ PooledLength(feat) = (rnet.input_resolution \div 32)
                                        * (rnet.input_resolution \div 32) + 1
             /\ PooledLength(feat) = rnet.rows

\* A ModifiedResNet of resolution 64 with two blocks in layer1 has returned
\* on an input of side 64: the feature map pooled had side 2.
ResNetOf64Returned ==
    /\ rpc = "returned"
    /\ rnet.input_resolution = 64
    /\ rin = <<3, 64, 64>>
    /\ Len(rnet.layers[1]) = 2
    /\ feat[2] = 2
    /\ rnet.rows = 5

(***************************************************************************)
(* The values of the construction.  A parameter whose origin is "init"     *)
(* holds what __init__ gave it: zero for the parameters below, a random    *)
(* value for the others.                                                   *)
(***************************************************************************)
\* VisionTransformer.__init__ lines 390-406 (the c_out of the adapters),
\* Transformer.__init__ line 349 (temporal_ada_weight), the biases of
\* nn.MultiheadAttention and nn.LayerNorm; for a ModifiedResNet the bn3
\* weights, lines 479-483.
ZeroAtConstruction(m) ==
    IF m.visual = "VisionTransformer"
    THEN {"visual.transformer." \o Join(n) : n \in Zeroed(m.layers)}
            \cup {"visual.transformer.temporal_ada_weight"}
            \cup {k \in DOMAIN m.params :
                     \/ EndsWith(k, ".in_proj_bias")
                     \/ EndsWith(k, ".out_proj.bias")
                     \/ (Contains(k, "ln_") /\ EndsWith(k, ".bias"))}
    ELSE {k \in DOMAIN m.params : EndsWith(k, ".bn3.weight")}

\* The parameter still holds the zero of the construction
StillZero(m, k) == k \in DOMAIN m.params /\ m.params[k].from = "init" /\ k \in ZeroAtConstruction(m)

(***************************************************************************)
(* C11.  build_model constructs the model before it loads the dictionary,  *)
(* and the load is non-strict: a parameter is overwritten only when the    *)
(* dictionary holds a key of its name.  For a dictionary with no S_Adapter *)
(* or MLP_Adapter key (a checkpoint of the original backbone), every c_out *)
(* weight and bias of the adapters of the returned model is still zero,    *)
(* and so is temporal_ada_weight.                                          *)
(***************************************************************************)
NoAdapterKeys ==
    \A k \in DOMAIN passed : ~Contains(k, "S_Adapter") /\ ~Contains(k, "MLP_Adapter")

AdapterOutKeys(m) ==
    {"visual.transformer.resblocks." \o Str(i) \o "." \o a \o ".mlp.c_out." \o wb :
        i \in 0..m.layers - 1, a \in {"S_Adapter", "MLP_Adapter"}, wb \in {"weight", "bias"}}

AdaptersZeroAfterBackboneLoad ==
    /\ bpc \in {"constructed", "meta", "visual"} =>
          \A k \in DOMAIN model.params : model.params[k].from = "init"
    /\ bpc = "returned" =>
          /\ \A k \in DOMAIN model.params :
                model.params[k].from # "init" => k \in DOMAIN passed
          /\ (model.visual = "VisionTransformer" /\ NoAdapterKeys) =>
                /\ \A k \in AdapterOutKeys(model) : StillZero(model, k)
                /\ StillZero(model, "visual.transformer.temporal_ada_weight")

\* A checkpoint of the original backbone with two residual blocks has been
\* loaded: attention weights are the saved ones, the adapters are as built.
BackboneLoadedIntoAdaptedModel ==
    /\ bpc = "returned"
    /\ model.visual = "VisionTransformer"
    /\ NoAdapterKeys
    /\ model.layers = 2
    /\ model.params["visual.transformer.resblocks.1.attn.in_proj_weight"].from = "checkpoint"
    /\ StillZero(model, "visual.transformer.resblocks.1.MLP_Adapter.mlp.c_out.weight")

(***************************************************************************)
(* C12.  In a freshly constructed Transformer temporal_ada_weight is zero, *)
(* and the token tensor that Transformer.forward returns is the output of  *)
(* the last residual block.  Whatever the weight, the one (1, N, D) result *)
(* of taggblocks, times the weight, is added alike to each of the L token  *)
(* positions of every frame.  (out is held in eighths.)                    *)
(***************************************************************************)
TemporalTermAddedToEveryToken ==
    fpc = "done" =>
        /\ x = ResidualAttentionBlock(params, li - 1, xin)
        /\ FreshlyConstructed =>
              /\ params[<<"temporal_ada_weight">>].data = <<0>>
              /\ \A k \in 1..Len(x.data) : out.data[k] = 8 * x.data[k]
        /\ Let1(TemporalAggregationBlock(x, fT), LAMBDA t :
              /\ t.shape = <<1, x.shape[2], x.shape[3]>>
              /\ out.shape = x.shape
              /\ \A l \in 0..x.shape[1] - 1, n \in 0..x.shape[2] - 1, d \in 0..x.shape[3] - 1 :
                    At(out, <<l, n, d>>) - 8 * At(x, <<l, n, d>>)
                        = At(t, <<0, n, d>>) * params[<<"temporal_ada_weight">>].data[1])

\* A freshly constructed Transformer has returned on frames whose temporal
\* correlation is not zero.
FreshForwardWithCorrelation ==
    /\ fpc = "done"
    /\ FreshlyConstructed
    /\ fT = 2
    /\ \E k \in 1..Len(TemporalAggregationBlock(x, fT).data) :
          TemporalAggregationBlock(x, fT).data[k] # 0
    /\ out.data[1] = 8 * x.data[1]

(***************************************************************************)
(* C13.  build_model raises for every dictionary without the key           *)
(* "text_projection", on either branch, and it raises before a model is    *)
(* constructed.  Whenever it raises while it reads the hyperparameters off *)
(* the dictionary (lines 533-550: a missing key, a shape without a square  *)
(* root, the assertion of the ResNet branch) the dictionary is as it was   *)
(* passed: no key is deleted before the model has been constructed.        *)
(***************************************************************************)
FailsWithoutTextProjectionLeavingDict ==
    /\ ~Has("text_projection") =>
          /\ bpc \in {"call", "raised"}
          /\ bpc = "call" => InferError(state_dict) # NoError
          /\ bpc = "raised" => raised # NoError /\ raised.line \in 533..550
    /\ (bpc = "raised" /\ raised.line \in 533..550) => state_dict = passed
    /\ bpc \in {"call", "inferred", "constructed"} => state_dict = passed

\* build_model has raised at line 550 on a dictionary that lacks only the
\* text entries and holds the three meta entries, which are still there.
RaisedForMissingTextProjection ==
    /\ bpc = "raised"
    /\ raised = Error("KeyError", 550)
    /\ ~Has("text_projection")
    /\ Has("input_resolution")
    /\ "input_resolution" \in DOMAIN state_dict
    /\ state_dict = passed

====
